---- MODULE Spec2Model ----
(***************************************************************************)
(* A model of i3manager (src/i3manager/manager.py): the Manager's entity   *)
(* model (outputs, workspaces, focus histories), its i3 event handlers,    *)
(* the window-move reconciliation task, the bootstrap tree walk with its   *)
(* renumbering loop, and the socket commands.                              *)
(*                                                                         *)
(* Workspace objects are mutable Python objects with identity; they are    *)
(* modelled as slots 1..MaxObj of the function wsobj.  A slot that nothing *)
(* references any more is reclaimed (Python's garbage collection).         *)
(***************************************************************************)
EXTENDS Integers, Sequences, FiniteSets, TLC

----------------------------------------------------------------------------
(* Bounds of the model *)

\* number of Workspace objects alive at the same time
MaxObj == 3
\* longest Output.workspaces list (workspace-init may append without limit)
MaxList == 2
\* workspace numbers 1..MaxNum carried by events
MaxNum == 3
\* window (container) ids 1..NumWin carried by events
NumWin == 2
\* window-move reconciliation tasks suspended at the same time
MaxTasks == 1
\* workspaces of the tree that the renumbering is checked on
MaxBootWs == 5
\* windows focused beyond the capacity of a focus history
Overflow == 2
\* calls on one Workspace that name a window of its history
MaxProbes == 3
\* a history of up to MaxShort windows counts as short
MaxShort == 2
\* the one-digit arguments 0..MaxArg of output-workspace
MaxArg == 4
\* the first MaxNew numbers of a band are there or not, one by one
MaxNew == 3
\* a client sends up to MaxLines lines, in chunks of up to MaxChunk pieces
MaxLines == 3
MaxChunk == 12

----------------------------------------------------------------------------
(* Program constants *)

\* Python's None for a reference to a Workspace
None == 0
\* collections.deque(maxlen=50)
FocusMaxLen == 50
\* width of an output's band of workspace numbers
BandWidth == 100
\* cfg.get('start', 1) / return 1
DefaultStart == 1
NoOutput == "None"
\* the i3 scratchpad workspace: its num is -1, like that of every workspace
\* whose name starts with no number
ScratchName == "__i3_scratch"
ScratchKey == <<-1, ScratchName>>
OutputOrder == <<"A", "B">>
OutputNames == {OutputOrder[i] : i \in 1..Len(OutputOrder)}

\* config.outputs as read from i3/manager.cfg: output B starts at 101,
\* output A is not configured
ConfigOutputs == [B |-> [start |-> 101]]

\* slots for Workspace objects: those events may create, and those of the
\* largest tree the bootstrap walks
ObjIds == 1..(MaxObj + MaxBootWs)
Windows == 1..NumWin

----------------------------------------------------------------------------
(* str(num) *)

Digits == <<"0", "1", "2", "3", "4", "5", "6", "7", "8", "9">>

RECURSIVE NatStr(_)
NatStr(n) == IF n < 10 THEN Digits[n + 1]
             ELSE NatStr(n \div 10) \o Digits[(n % 10) + 1]

NumStr(n) == IF n < 0 THEN "-" \o NatStr(0 - n) ELSE NatStr(n)

\* the (num, name) pairs of the workspaces that events speak about
EvKeys == {<<n, NumStr(n)>> : n \in 1..MaxNum}

----------------------------------------------------------------------------
VARIABLES
    wsobj,              \* Workspace objects: slot -> [num, name, focus_order]
    workspaces,         \* Manager.workspaces: the dict's values in insertion order
    outputs,            \* Manager.outputs: name -> Output.workspaces
    current_output,     \* Manager.current_output (a name, or NoOutput)
    current_workspace,  \* Manager.current_workspace (a slot, or None)
    scratchpad,         \* Manager.scratchpad (a slot, or None)
    rename_workspaces,  \* _init's queue of <<output, workspace>> still to renumber
    raised,             \* the last handler or task ended by raising an exception
    pc,                 \* position of main: in Manager._init, waiting, leaving
    tasks,              \* suspended _on_window_move tasks
    sent,               \* the last command given to i3.command
    i3_renames,         \* rename events i3 has still to deliver
    calls,              \* the calls made on the Workspace that is driven alone
    conn                \* a client's connection to the command socket

vars == <<wsobj, workspaces, outputs, current_output, current_workspace,
          scratchpad, rename_workspaces, raised, pc, tasks, sent, i3_renames,
          calls, conn>>

Range(s) == {s[i] : i \in 1..Len(s)}

\* the names of the Output objects of the dict outs
Names(outs) == IF outs = <<>> THEN {} ELSE DOMAIN outs

\* an unused slot
Null == [num |-> 0, name |-> "", focus_order |-> <<>>]

\* what is kept of a command given to i3.command: arg is its text, by the
\* coroutine that sent it; a rename command also keeps the loop's i as
\* target, its output, the (num, name) it renames and the loop's nums
NoCommand == [cmd |-> "none", arg |-> "", by |-> "", target |-> 0,
              output |-> NoOutput, from |-> <<>>, nums |-> {}]

----------------------------------------------------------------------------
(* The Manager's state as one value, so that a handler is a function of it *)

M == [objs |-> wsobj, workspaces |-> workspaces, outputs |-> outputs,
      current_output |-> current_output,
      current_workspace |-> current_workspace, scratchpad |-> scratchpad,
      rename_workspaces |-> rename_workspaces, raised |-> FALSE]

\* the Workspace objects something still refers to
Refs(m) ==
    Range(m.workspaces)
    \cup UNION {Range(m.outputs[n]) : n \in Names(m.outputs)}
    \cup ({m.current_workspace, m.scratchpad} \ {None})
    \cup {m.rename_workspaces[i][2] : i \in 1..Len(m.rename_workspaces)}

\* events create Workspace objects while fewer than MaxObj are alive
CanCreate(m, key) ==
    \/ Cardinality(Refs(m)) < MaxObj
    \/ \E i \in 1..Len(m.workspaces) :
           <<m.objs[m.workspaces[i]].num, m.objs[m.workspaces[i]].name>> = key

FreeObj(m) == CHOOSE o \in DOMAIN m.objs \ Refs(m) :
                  \A p \in DOMAIN m.objs \ Refs(m) : o <= p

\* the referenced objects in the order in which the state mentions them
RECURSIVE Distinct(_)
Distinct(s) ==
    IF s = <<>> THEN <<>>
    ELSE LET d == Distinct(SubSeq(s, 1, Len(s) - 1)) IN
         IF s[Len(s)] \in Range(d) THEN d ELSE Append(d, s[Len(s)])

RECURSIVE Lists(_, _)
Lists(m, names) ==
    IF names = <<>> THEN <<>>
    ELSE (IF Head(names) \in Names(m.outputs)
          THEN m.outputs[Head(names)] ELSE <<>>)
         \o Lists(m, Tail(names))

Mentioned(m) ==
    Distinct(SelectSeq(
        m.workspaces \o Lists(m, OutputOrder)
        \o <<m.current_workspace, m.scratchpad>>
        \o [i \in 1..Len(m.rename_workspaces) |-> m.rename_workspaces[i][2]],
        LAMBDA o : o # None))

\* Unreferenced objects are reclaimed, and the objects that stay are
\* numbered in the order in which the state mentions them: which slot an
\* object occupies carries no meaning.
Collect(m) ==
    LET ord == Mentioned(m)
        slot(o) == IF o = None THEN None
                   ELSE CHOOSE i \in 1..Len(ord) : ord[i] = o
        ren(s) == [i \in 1..Len(s) |-> slot(s[i])]
    IN [objs |-> [i \in DOMAIN m.objs |->
                     IF i <= Len(ord) THEN m.objs[ord[i]] ELSE Null],
        workspaces |-> ren(m.workspaces),
        outputs |-> [n \in Names(m.outputs) |-> ren(m.outputs[n])],
        current_output |-> m.current_output,
        current_workspace |-> slot(m.current_workspace),
        scratchpad |-> slot(m.scratchpad),
        rename_workspaces |-> [i \in 1..Len(m.rename_workspaces) |->
            <<m.rename_workspaces[i][1], slot(m.rename_workspaces[i][2])>>],
        raised |-> m.raised]

Commit(m) ==
    \E c \in {Collect(m)} :
    /\ wsobj' = c.objs
    /\ workspaces' = c.workspaces
    /\ outputs' = c.outputs
    /\ current_output' = c.current_output
    /\ current_workspace' = c.current_workspace
    /\ scratchpad' = c.scratchpad
    /\ rename_workspaces' = c.rename_workspaces
    /\ raised' = c.raised

Raise(m) == [m EXCEPT !.raised = TRUE]

----------------------------------------------------------------------------
(* Workspace *)

KeyOf(objs, o) == <<objs[o].num, objs[o].name>>

\* Workspace.__eq__: equal num and name (two objects may be equal)
WsEq(objs, a, b) == KeyOf(objs, a) = KeyOf(objs, b)

RemoveAt(s, i) == SubSeq(s, 1, i - 1) \o SubSeq(s, i + 1, Len(s))

\* deque.remove / list.remove of a value: the first occurrence goes
RemoveFirst(s, x) ==
    LET at == {i \in 1..Len(s) : s[i] = x} IN
    IF at = {} THEN s
    ELSE RemoveAt(s, CHOOSE i \in at : \A j \in at : i <= j)

\* deque(maxlen=FocusMaxLen).append: a full deque drops its head
DequeAppend(s, x) ==
    IF Len(s) >= FocusMaxLen THEN Append(Tail(s), x) ELSE Append(s, x)

\* on_window_focus without its remove
WsOnWindowFocusNoRemove(s, id) == DequeAppend(s, id)

\* Workspace.on_window_focus on the history s
WsOnWindowFocus(s, id) == DequeAppend(RemoveFirst(s, id), id)

\* Workspace.on_window_close on the history s
WsOnWindowClose(s, id) == RemoveFirst(s, id)

\* Workspace.has_container
HasContainer(s, id) == Cardinality({i \in 1..Len(s) : s[i] = id}) > 0

FocusIn(m, o, id) ==
    [m EXCEPT !.objs[o].focus_order = WsOnWindowFocus(@, id)]

CloseIn(m, o, id) ==
    [m EXCEPT !.objs[o].focus_order = WsOnWindowClose(@, id)]

----------------------------------------------------------------------------
(* Output *)

\* list.sort(key=num) is stable: an element goes behind those of equal num
InsertByNum(objs, s, o) ==
    LET k == Cardinality({i \in 1..Len(s) : objs[s[i]].num <= objs[o].num})
    IN SubSeq(s, 1, k) \o <<o>> \o SubSeq(s, k + 1, Len(s))

RECURSIVE SortByNum(_, _)
SortByNum(objs, s) ==
    IF s = <<>> THEN <<>>
    ELSE InsertByNum(objs, SortByNum(objs, SubSeq(s, 1, Len(s) - 1)), s[Len(s)])

\* Output._sort_workspaces
SortWorkspaces(m, name) ==
    [m EXCEPT !.outputs[name] = SortByNum(m.objs, @)]

\* Output.add_workspace
AddWorkspace(m, name, o) ==
    SortWorkspaces([m EXCEPT !.outputs[name] = Append(@, o)], name)

\* list.index / list.remove compare with ==, which is Workspace.__eq__
IndexOf(objs, s, o) ==
    LET at == {i \in 1..Len(s) : s[i] = o \/ WsEq(objs, s[i], o)} IN
    IF at = {} THEN 0 ELSE CHOOSE i \in at : \A j \in at : i <= j

\* Output.remove_workspace; list.remove raises ValueError when absent
RemoveWorkspace(m, name, o) ==
    LET i == IndexOf(m.objs, m.outputs[name], o) IN
    IF i = 0 THEN Raise(m)
    ELSE [m EXCEPT !.outputs[name] = RemoveAt(@, i)]

----------------------------------------------------------------------------
(* Manager helpers *)

\* Manager.get_output: the Output of that name, created when missing
GetOutput(m, name) ==
    IF name \in Names(m.outputs) THEN m
    ELSE [m EXCEPT !.outputs = [n \in Names(m.outputs) \cup {name} |->
                        IF n = name THEN <<>> ELSE m.outputs[n]]]

\* dict lookup by (num, name)
TableFind(m, key) ==
    LET at == {i \in 1..Len(m.workspaces) :
                   KeyOf(m.objs, m.workspaces[i]) = key} IN
    IF at = {} THEN None ELSE m.workspaces[CHOOSE i \in at : TRUE]

\* Manager.get_workspace: [m, ws], the Workspace created when missing
GetWorkspace(m, key) ==
    LET found == TableFind(m, key) IN
    IF found # None THEN [m |-> m, ws |-> found]
    ELSE LET o == FreeObj(m) IN
         [m |-> [m EXCEPT !.objs[o] = [num |-> key[1], name |-> key[2],
                                        focus_order |-> <<>>],
                          !.workspaces = Append(@, o)],
          ws |-> o]

\* dict.pop(key, None)
TablePop(m, key) ==
    LET o == TableFind(m, key) IN
    IF o = None THEN m
    ELSE [m EXCEPT !.workspaces = RemoveFirst(@, o)]

\* dict[key] = o, where o carries key: an entry of that key keeps its place
TableSet(m, key, o) ==
    LET old == TableFind(m, key) IN
    IF old = None THEN [m EXCEPT !.workspaces = Append(@, o)]
    ELSE [m EXCEPT !.workspaces =
              [i \in 1..Len(@) |-> IF @[i] = old THEN o ELSE @[i]]]

\* Manager.get_output_start
GetOutputStart(name) ==
    IF name \in DOMAIN ConfigOutputs
    THEN IF "start" \in DOMAIN ConfigOutputs[name]
         THEN ConfigOutputs[name].start ELSE DefaultStart
    ELSE DefaultStart

----------------------------------------------------------------------------
(* i3 container ids that are no windows *)

\* the con id of the __i3_scratch workspace node
ScratchConId == NumWin + 1
\* the con id of a split container (a con without a window of its own)
SplitConId == NumWin + 2
\* the con id of the floating_con that wraps window w
FloatConId(w) == NumWin + 2 + w

\* the ids Manager.walk_nodes visits below the __i3_scratch workspace node
\* that holds the windows wins: the node itself, then each floating_con
\* followed by its window
RECURSIVE ScratchWalk(_)
ScratchWalk(wins) ==
    IF wins = <<>> THEN <<>>
    ELSE <<FloatConId(Head(wins)), Head(wins)>> \o ScratchWalk(Tail(wins))

ScratchNodeIds(wins) == <<ScratchConId>> \o ScratchWalk(wins)

\* the window lists a subtree may hold
WinLists == {<<>>} \cup {<<w>> : w \in Windows}
            \cup {q \in Windows \X Windows : q[1] < q[2]}
----------------------------------------------------------------------------
(* Event handlers, as functions of the Manager's state *)

\* Manager.on_workspace_init
OnWorkspaceInit(m, key, out) ==
    LET g == GetWorkspace(m, key)
        m1 == GetOutput(g.m, out)
    IN AddWorkspace(m1, out, g.ws)

\* scratch_window of on_workspace_focus, for the node ids in turn
RECURSIVE ScratchWindows(_, _)
ScratchWindows(m, ids) ==
    IF ids = <<>> THEN m
    ELSE ScratchWindows(
             CloseIn(FocusIn(m, m.scratchpad, Head(ids)),
                     m.current_workspace, Head(ids)),
             Tail(ids))

\* Manager.on_workspace_focus; old is "none" (e.old is None), "workspace"
\* (another workspace) or "scratch" (e.old is __i3_scratch, holding wins)
OnWorkspaceFocus(m, key, out, old, wins) ==
    LET m1 == [GetOutput(m, out) EXCEPT !.current_output = out]
        g == GetWorkspace(m1, key)
        m2 == [g.m EXCEPT !.current_workspace = g.ws]
    IN IF old # "scratch" THEN m2
       ELSE IF m2.scratchpad = None THEN Raise(m2)
       ELSE ScratchWindows(
                [m2 EXCEPT !.objs[m2.scratchpad].focus_order = <<>>],
                ScratchNodeIds(wins))

\* Manager.on_workspace_empty
OnWorkspaceEmpty(m, key, out) ==
    LET m1 == GetOutput(m, out)
        g == GetWorkspace(m1, key)
        m2 == RemoveWorkspace(g.m, out, g.ws)
    IN IF m2.raised THEN m2
       ELSE TablePop(m2, KeyOf(m2.objs, g.ws))

\* Manager.on_workspace_rename: the event names only the new num and name
OnWorkspaceRename(m, key) ==
    IF m.current_workspace = None THEN m
    ELSE LET ws == m.current_workspace
             m1 == TablePop(m, KeyOf(m.objs, ws))
             m2 == [m1 EXCEPT !.objs[ws].num = key[1],
                              !.objs[ws].name = key[2]]
             m3 == TableSet(m2, key, ws)
         IN IF m3.current_output = NoOutput THEN Raise(m3)
            ELSE SortWorkspaces(m3, m3.current_output)

\* Manager.on_window_focus
OnWindowFocus(m, id, floating) ==
    IF /\ m.current_workspace # None
       /\ ~(/\ m.scratchpad # None
            /\ HasContainer(m.objs[m.scratchpad].focus_order, id))
       /\ floating # "user_on"
    THEN FocusIn(m, m.current_workspace, id)
    ELSE m

\* Manager.on_window_close
OnWindowClose(m, id) ==
    IF m.current_workspace # None THEN CloseIn(m, m.current_workspace, id)
    ELSE m

\* on_window_move for a floating_con: every workspace of the table forgets
\* every child node of the container
RECURSIVE CloseAll(_, _)
CloseAll(s, ids) ==
    IF ids = <<>> THEN s
    ELSE CloseAll(WsOnWindowClose(s, Head(ids)), Tail(ids))

\* the teardown that closes the nodes in the current workspace only
CloseInCurrent(m, ids) ==
    IF m.current_workspace = None THEN m
    ELSE [m EXCEPT !.objs[m.current_workspace].focus_order = CloseAll(@, ids)]

\* on_window_close of every node of the list on every workspace of the table
CloseEverywhere(m, ids) ==
    [m EXCEPT !.objs = [o \in DOMAIN m.objs |->
        IF o \in Range(m.workspaces)
        THEN [m.objs[o] EXCEPT !.focus_order = CloseAll(@, ids)]
        ELSE m.objs[o]]]

\* the containers a window-move event may carry
Containers ==
    {[type |-> "floating_con", id |-> FloatConId(ws[1]), window |-> FALSE,
      nodes |-> ws, child_window |-> TRUE] : ws \in WinLists \ {<<>>}}
    \cup {[type |-> "con", id |-> w, window |-> TRUE, nodes |-> <<>>,
           child_window |-> FALSE] : w \in Windows}
    \cup {[type |-> "con", id |-> SplitConId, window |-> FALSE,
           nodes |-> <<w>>, child_window |-> TRUE] : w \in Windows}
    \cup {[type |-> "con", id |-> SplitConId, window |-> FALSE,
           nodes |-> <<>>, child_window |-> FALSE]}

\* whether on_window_move creates the _on_window_move task
SpawnsTask(c) ==
    /\ c.type # "floating_con"
    /\ c.window \/ (c.nodes # <<>> /\ c.child_window)

\* Manager.on_window_move: the Manager after it, and whether it has created
\* the _on_window_move task
OnWindowMove(m, c) ==
    IF c.type = "floating_con"
    THEN [m |-> CloseEverywhere(m, c.nodes), task |-> FALSE]
    ELSE [m |-> m, task |-> SpawnsTask(c)]

\* the first workspace of the table whose history holds the container
TrackedIn(m, id) ==
    LET at == {i \in 1..Len(m.workspaces) :
                  HasContainer(m.objs[m.workspaces[i]].focus_order, id)} IN
    IF at = {} THEN None
    ELSE m.workspaces[CHOOSE i \in at : \A j \in at : i <= j]

\* the reconciliation that forgets a window the tree does not hold
OnWindowMoveResumeForgets(m, id, place) ==
    LET cur == TrackedIn(m, id) IN
    IF place = <<>> THEN (IF cur = None THEN m ELSE CloseIn(m, cur, id))
    ELSE LET g == GetWorkspace(m, place) IN
         IF cur = None THEN Raise(g.m)
         ELSE IF ~WsEq(g.m.objs, cur, g.ws)
         THEN FocusIn(CloseIn(g.m, cur, id), g.ws, id)
         ELSE g.m

\* Manager._on_window_move from the resumption after get_tree on; place is
\* the (num, name) of the workspace node the tree walk returns, or <<>>
\* when it returns nothing
OnWindowMoveResume(m, id, place) ==
    LET cur == TrackedIn(m, id) IN
    IF place = <<>> THEN m
    ELSE LET g == GetWorkspace(m, place) IN
         IF cur = None THEN Raise(g.m)
         ELSE IF ~WsEq(g.m.objs, cur, g.ws)
         THEN FocusIn(CloseIn(g.m, cur, id), g.ws, id)
         ELSE g.m
----------------------------------------------------------------------------
(* Manager._init: the walk of the tree i3 returns *)

\* A tree is [scratch, outs]: the windows below __i3_scratch (the __i3
\* output comes first in i3's tree), and the output nodes in order, each
\* [name, wss], a workspace node being [key, focused, wins] and a window
\* node [id, focused].

WinNode(id, focused) == [id |-> id, focused |-> focused]
WsNode(n, name, focused, wins) ==
    [key |-> <<n, name>>, focused |-> focused, wins |-> wins]
OutNode(name, wss) == [name |-> name, wss |-> wss]

\* a band test without the lower end
InBandNoFloor(start, n) == n < start + BandWidth

\* the band test of _walk_tree
InBand(start, n) == start <= n /\ n < start + BandWidth

\* _walk_tree on the window nodes of workspace cw of output co
RECURSIVE WalkWindows(_, _, _, _)
WalkWindows(m, co, cw, wins) ==
    IF wins = <<>> THEN m
    ELSE LET w == Head(wins)
             m1 == IF w.focused
                   THEN [m EXCEPT !.current_output = co,
                                  !.current_workspace = cw]
                   ELSE m
         IN WalkWindows(FocusIn(m1, cw, w.id), co, cw, Tail(wins))

\* _walk_tree on a workspace node of output co
WalkWorkspace(m, co, node) ==
    LET g == GetWorkspace(m, node.key)
        m1 == AddWorkspace(g.m, co, g.ws)
        m2 == IF ~InBand(GetOutputStart(co), m1.objs[g.ws].num)
              THEN [m1 EXCEPT !.rename_workspaces = Append(@, <<co, g.ws>>)]
              ELSE m1
        m3 == IF node.focused
              THEN [m2 EXCEPT !.current_output = co,
                              !.current_workspace = g.ws]
              ELSE m2
    IN WalkWindows(m3, co, g.ws, node.wins)

RECURSIVE WalkWorkspaces(_, _, _)
WalkWorkspaces(m, co, wss) ==
    IF wss = <<>> THEN m
    ELSE WalkWorkspaces(WalkWorkspace(m, co, Head(wss)), co, Tail(wss))

RECURSIVE WalkOutputs(_, _)
WalkOutputs(m, outs) ==
    IF outs = <<>> THEN m
    ELSE WalkOutputs(
             WalkWorkspaces(GetOutput(m, Head(outs).name), Head(outs).name,
                            Head(outs).wss),
             Tail(outs))

\* _walk_tree on the root
WalkTree(m, tree) ==
    LET g == GetWorkspace(m, ScratchKey)
        m1 == [g.m EXCEPT !.scratchpad = g.ws]
        m2 == WalkWindows(m1, NoOutput, g.ws,
                          [i \in 1..Len(tree.scratch) |->
                              WinNode(tree.scratch[i], FALSE)])
    IN WalkOutputs(m2, tree.outs)

----------------------------------------------------------------------------
(* Manager._init: the renumbering loop *)

\* the numbers of the workspaces of an output
OutputNums(m, name) == {m.objs[m.outputs[name][i]].num :
                            i \in 1..Len(m.outputs[name])}

Preferred(start, n) == start + (n % BandWidth) - 1

\* the scan that stops at the preferred candidate, free or not
AllocTargetPreferredOnly(start, nums, n) == Preferred(start, n)

\* the first i of chain((preferred,), count(start)) that is not in nums
AllocTarget(start, nums, n) ==
    IF Preferred(start, n) \notin nums THEN Preferred(start, n)
    ELSE CHOOSE i \in start..(start + Cardinality(nums)) :
             /\ i \notin nums
             /\ \A j \in start..(i - 1) : j \in nums

\* the rename command of one pass of the loop, for <<output, workspace>>
RenameCommand(m, q) ==
    LET ws == m.objs[q[2]]
        start == GetOutputStart(q[1])
        i == AllocTarget(start, OutputNums(m, q[1]), ws.num)
        named == ws.name # NumStr(ws.num)
        from_name == IF named
                     THEN "\"" \o NumStr(ws.num) \o ":" \o ws.name \o "\""
                     ELSE NumStr(ws.num)
        to_name == IF named
                   THEN "\"" \o NumStr(i) \o ":" \o ws.name \o "\""
                   ELSE NumStr(i)
    IN [cmd |-> "rename",
        arg |-> "rename workspace " \o from_name \o " to " \o to_name,
        by |-> "_init",
        target |-> i, output |-> q[1], from |-> <<ws.num, ws.name>>,
        nums |-> OutputNums(m, q[1])]

\* what i3 reports once the rename command c has taken effect: the new
\* (num, name) of the renamed workspace
Renamed(c) ==
    <<c.target, IF c.from[2] # NumStr(c.from[1])
                THEN NumStr(c.target) \o ":" \o c.from[2]
                ELSE NumStr(c.target)>>

\* one pass of the loop: the command for the head of the queue is sent.
\* events are the rename events i3 owes afterwards: a workspace named by its
\* number exists under the name the command gives; the quoted name the
\* command builds for any other workspace is the name of no workspace, and
\* i3 renames nothing.
IssueRename(m) ==
    LET c == RenameCommand(m, Head(m.rename_workspaces)) IN
    [m |-> [m EXCEPT !.rename_workspaces = Tail(@)],
     cmd |-> c,
     events |-> IF c.from[2] = NumStr(c.from[1])
                THEN <<[from |-> c.from, to |-> Renamed(c)]>>
                ELSE <<>>]

----------------------------------------------------------------------------
(* Commands of the socket, as functions of the Manager's state: what the
   coroutine gives to i3.command before it is suspended, or that it raises *)

Sends(by, text) == [raised |-> FALSE,
                    sent |-> [NoCommand EXCEPT !.cmd = "workspace",
                                               !.arg = text, !.by = by]]
Raises == [raised |-> TRUE, sent |-> NoCommand]
Returns == [raised |-> FALSE, sent |-> NoCommand]

\* a focus command for a container
Focuses(by, id) ==
    [raised |-> FALSE,
     sent |-> [NoCommand EXCEPT !.cmd = "focus", !.by = by, !.target = id,
                                !.arg = "[con_id=" \o NatStr(id) \o "] focus"]]

\* last_window that takes the last element of the history
LastWindowNewest(m) ==
    IF m.current_workspace = None THEN Returns
    ELSE LET order == m.objs[m.current_workspace].focus_order IN
         IF Len(order) < 2 THEN Returns
         ELSE Focuses("last_window", order[Len(order)])

\* Manager.last_window
LastWindow(m) ==
    IF m.current_workspace = None THEN Returns
    ELSE LET order == m.objs[m.current_workspace].focus_order IN
         IF Len(order) < 2 THEN Returns
         ELSE Focuses("last_window", order[Len(order) - 1])

\* self.current_output.workspaces.index(self.current_workspace), from 1;
\* 0 when it raises: no current output (AttributeError), no current
\* workspace (Workspace.__eq__ reads None.num) or no equal entry (ValueError)
CurrentIndex(m) ==
    IF m.current_output = NoOutput \/ m.current_workspace = None THEN 0
    ELSE IndexOf(m.objs, m.outputs[m.current_output], m.current_workspace)

SwitchTo(m, by, index) ==
    Sends(by, "workspace "
              \o m.objs[m.outputs[m.current_output][index]].name)

\* workspace_left that stops at the first workspace
WorkspaceLeftNoWrap(m) ==
    LET index == CurrentIndex(m) IN
    IF index = 0 THEN Raises
    ELSE SwitchTo(m, "workspace_left", IF index = 1 THEN 1 ELSE index - 1)

\* Manager.workspace_left
WorkspaceLeft(m) ==
    LET index == CurrentIndex(m) IN
    IF index = 0 THEN Raises
    ELSE SwitchTo(m, "workspace_left",
                  IF index = 1 THEN Len(m.outputs[m.current_output])
                  ELSE index - 1)

\* Manager.workspace_right
WorkspaceRight(m) ==
    LET index == CurrentIndex(m) IN
    IF index = 0 THEN Raises
    ELSE SwitchTo(m, "workspace_right",
                  IF index >= Len(m.outputs[m.current_output]) THEN 1
                  ELSE index + 1)

\* the first i of count(start) that is not in nums
FirstFree(start, nums) ==
    CHOOSE i \in start..(start + Cardinality(nums)) :
        /\ i \notin nums
        /\ \A j \in start..(i - 1) : j \in nums

\* new_output_workspace that takes the number behind the output's workspaces
NewOutputWorkspaceBehind(m) ==
    IF m.current_output = NoOutput THEN Raises
    ELSE LET nums == OutputNums(m, m.current_output)
             start == GetOutputStart(m.current_output)
             i == start + Cardinality(nums)
         IN [Sends("new_output_workspace", "workspace " \o NumStr(i))
                EXCEPT !.sent.target = i]

\* Manager.new_output_workspace
NewOutputWorkspace(m) ==
    IF m.current_output = NoOutput THEN Raises
    ELSE LET nums == OutputNums(m, m.current_output)
             start == GetOutputStart(m.current_output)
             i == FirstFree(start, nums)
         IN [Sends("new_output_workspace", "workspace " \o NumStr(i))
                EXCEPT !.sent.target = i]

\* str.isdigit and int() on a token, a token being its characters in turn
IsDigit(tok) == tok # <<>> /\ \A i \in 1..Len(tok) : tok[i] \in Range(Digits)

RECURSIVE ToInt(_)
ToInt(tok) ==
    IF tok = <<>> THEN 0
    ELSE 10 * ToInt(SubSeq(tok, 1, Len(tok) - 1))
         + (CHOOSE d \in 0..9 : Digits[d + 1] = tok[Len(tok)])

\* output_workspace that takes the first workspace of the digit, current
\* or not
OutputWorkspaceAnyDigit(m, args) ==
    IF Len(args) # 1 THEN Returns
    ELSE IF ~IsDigit(args[1]) THEN Returns
    ELSE IF m.current_output = NoOutput THEN Raises
    ELSE LET index == ToInt(args[1])
             list == m.outputs[m.current_output]
             digit == {i \in 1..Len(list) :
                          m.objs[list[i]].num % 10 = index + 1}
         IN IF digit # {}
            THEN SwitchTo(m, "output_workspace",
                          CHOOSE i \in digit : \A j \in digit : i <= j)
            ELSE IF list = <<>> THEN Raises
            ELSE SwitchTo(m, "output_workspace",
                          IF index >= Len(list) THEN Len(list)
                          ELSE index + 1)

\* Manager.output_workspace
OutputWorkspace(m, args) ==
    IF Len(args) # 1 THEN Returns
    ELSE IF ~IsDigit(args[1]) THEN Returns
    ELSE IF m.current_output = NoOutput THEN Raises
    ELSE LET index == ToInt(args[1])
             list == m.outputs[m.current_output]
             digit == {i \in 1..Len(list) :
                          m.objs[list[i]].num % 10 = index + 1}
             other == {i \in digit : ~WsEq(m.objs, list[i],
                                           m.current_workspace)}
         IN IF digit # {} /\ m.current_workspace = None THEN Raises
            ELSE IF other # {}
            THEN SwitchTo(m, "output_workspace",
                          CHOOSE i \in other : \A j \in other : i <= j)
            ELSE IF list = <<>> THEN Raises
            ELSE SwitchTo(m, "output_workspace",
                          IF index >= Len(list) THEN Len(list)
                          ELSE index + 1)

----------------------------------------------------------------------------
(* The trees of the start-up *)

\* workspace n, named by its number
NumWs(n, focused, wins) == WsNode(n, NumStr(n), focused, wins)

\* trees without windows, the workspaces inside their output's band: the
\* focused workspace 1, alone or with workspace 2
WsTrees ==
    {[scratch |-> <<>>,
      outs |-> <<OutNode("A", <<NumWs(1, TRUE, <<>>)>>)>>],
     [scratch |-> <<>>,
      outs |-> <<OutNode("A", <<NumWs(1, TRUE, <<>>),
                                NumWs(2, FALSE, <<>>)>>)>>]}

\* trees with windows: window 1 focused on workspace 1, the last window
\* hidden in the scratchpad or not
WinTrees ==
    {[scratch |-> scr,
      outs |-> <<OutNode("A", <<NumWs(1, FALSE, <<WinNode(1, TRUE)>>)>>)>>]
       : scr \in {<<>>, <<NumWin>>}}

\* the workspaces of the trees the renumbering is checked on: inside and
\* outside the bands, multiples of the band width, equal residues, and a
\* workspace named without a number
BootPool == {<<1, "1">>, <<2, "2">>, <<4, "4">>, <<23, "23">>,
             <<123, "123">>, <<200, "200">>, <<223, "223">>, <<-1, "web">>}

\* the subsets of BootPool as lists in ascending order of num
RECURSIVE Ascending(_)
Ascending(keys) ==
    IF keys = {} THEN <<>>
    ELSE LET k == CHOOSE x \in keys : \A y \in keys : x[1] <= y[1]
         IN <<k>> \o Ascending(keys \ {k})

\* one output that holds up to MaxBootWs workspaces, one of them focused
BootTrees ==
    {[scratch |-> <<>>,
      outs |-> <<OutNode(out,
                   [i \in 1..Cardinality(keys) |->
                       WsNode(Ascending(keys)[i][1], Ascending(keys)[i][2],
                              Ascending(keys)[i] = f, <<>>)])>>]
       : <<out, keys, f>> \in
           {x \in OutputNames \X (SUBSET BootPool) \X BootPool :
               x[3] \in x[2] /\ Cardinality(x[2]) <= MaxBootWs}}

\* the Workspace objects the walk of a tree may create
RECURSIVE TreeSize(_)
TreeSize(outs) ==
    IF outs = <<>> THEN 1 ELSE Len(Head(outs).wss) + TreeSize(Tail(outs))

----------------------------------------------------------------------------
(* Actions *)

\* no client is connected: rest is what the client has still to send, buffer
\* ManagerProtocol.buffer, lines the lines of the client's stream, spawned
\* the commands of the tasks created for it, in their order, and failed
\* whether data_received has raised
NoConn == [open |-> FALSE, rest |-> <<>>, buffer |-> <<>>, lines |-> <<>>,
           spawned |-> <<>>, failed |-> FALSE]

\* no call yet: opened counts the windows that have been focused for the
\* first time, probes the calls that named a window of the history, focused
\* is the id of the latest on_window_focus (None before the first), closed
\* whether on_window_close has been called with that id since
NoCalls == [opened |-> 0, probes |-> 0, focused |-> None, closed |-> FALSE]

Init ==
    /\ wsobj = [o \in ObjIds |-> Null]
    /\ workspaces = <<>>
    /\ outputs = <<>>
    /\ current_output = NoOutput
    /\ current_workspace = None
    /\ scratchpad = None
    /\ rename_workspaces = <<>>
    /\ raised = FALSE
    /\ pc = "init"
    /\ tasks = {}
    /\ sent = NoCommand
    /\ i3_renames = <<>>
    /\ calls = NoCalls
    /\ conn = NoConn

\* _init resumes from get_tree: the walk, and the first rename command
BootWalk(tree) ==
    /\ pc = "init"
    /\ \/ Refs(M) = {}
       \/ Cardinality(Refs(M)) + TreeSize(tree.outs) <= MaxObj
    /\ LET m == WalkTree(M, tree) IN
       IF m.rename_workspaces = <<>>
       THEN /\ Commit(m)
            /\ pc' = "done"
            /\ UNCHANGED <<sent, i3_renames>>
       ELSE /\ Commit(IssueRename(m).m)
            /\ pc' = "rename"
            /\ sent' = IssueRename(m).cmd
            /\ i3_renames' = i3_renames \o IssueRename(m).events
    /\ UNCHANGED <<tasks, calls, conn>>

\* _init resumes from i3.command: the next rename command, or the end
BootResume ==
    /\ pc = "rename"
    /\ IF rename_workspaces = <<>>
       THEN /\ pc' = "done"
            /\ UNCHANGED <<wsobj, workspaces, outputs, current_output,
                           current_workspace, scratchpad, rename_workspaces,
                           raised, sent, i3_renames>>
       ELSE /\ Commit(IssueRename(M).m)
            /\ pc' = "rename"
            /\ sent' = IssueRename(M).cmd
            /\ i3_renames' = i3_renames \o IssueRename(M).events
    /\ UNCHANGED <<tasks, calls, conn>>

Handled(m) == Commit(m) /\ UNCHANGED <<pc, tasks, sent, i3_renames, calls, conn>>

WorkspaceInit(key, out) ==
    /\ CanCreate(M, key)
    /\ out \in Names(outputs) => Len(outputs[out]) < MaxList
    /\ Handled(OnWorkspaceInit(M, key, out))

WorkspaceFocus(key, out, old, wins) ==
    /\ CanCreate(M, key)
    /\ Handled(OnWorkspaceFocus(M, key, out, old, wins))

WorkspaceEmpty(key, out) ==
    /\ CanCreate(M, key)
    /\ Handled(OnWorkspaceEmpty(M, key, out))

WorkspaceRename(key) ==
    Handled(OnWorkspaceRename(M, key))

WindowFocus(id, floating) ==
    Handled(OnWindowFocus(M, id, floating))

WindowClose(id) ==
    Handled(OnWindowClose(M, id))

\* Manager.on_window_move
WindowMove(c) ==
    /\ Commit(OnWindowMove(M, c).m)
    /\ OnWindowMove(M, c).task => Cardinality(tasks) < MaxTasks
    /\ tasks' = IF OnWindowMove(M, c).task
                THEN tasks \cup {[id |-> c.id, window |-> c.window]}
                ELSE tasks
    /\ UNCHANGED <<pc, sent, i3_renames, calls, conn>>

\* the workspace nodes a fresh tree may hold a window under
Places == EvKeys \cup {ScratchKey}

\* a suspended _on_window_move resumes with the fresh tree
MoveResume(t, place) ==
    /\ t \in tasks
    /\ pc # "exited"
    /\ place # <<>> => t.window /\ CanCreate(M, place)
    /\ Commit(OnWindowMoveResume(M, t.id, place))
    /\ tasks' = tasks \ {t}
    /\ UNCHANGED <<pc, sent, i3_renames, calls, conn>>

\* a window-move event for a window of its own container
WindowCons == {c \in Containers : c.type = "con" /\ c.window}

\* the workspace events and the window-move reconciliation of one window
NextWs ==
    \/ \E tree \in WsTrees : BootWalk(tree)
    \/ \E key \in EvKeys, out \in OutputNames : WorkspaceInit(key, out)
    \/ \E key \in EvKeys, out \in OutputNames :
           WorkspaceFocus(key, out, "workspace", <<>>)
    \/ \E key \in EvKeys, out \in OutputNames : WorkspaceEmpty(key, out)
    \/ \E key \in EvKeys : WorkspaceRename(key)
    \/ \E c \in {d \in WindowCons : d.id = 1} : WindowMove(c)
    \/ \E t \in tasks, place \in EvKeys \cup {<<>>} : MoveResume(t, place)

SpecWs == Init /\ [][NextWs]_vars

\* the window events, with the workspace-focus events that move the focus
\* between the workspaces of output A
NextWin ==
    \/ \E tree \in WinTrees : BootWalk(tree)
    \/ \E key \in EvKeys : WorkspaceFocus(key, "A", "workspace", <<>>)
    \/ \E key \in EvKeys, wins \in WinLists :
           WorkspaceFocus(key, "A", "scratch", wins)
    \/ \E id \in Windows, floating \in {"auto_off", "user_on"} :
           WindowFocus(id, floating)
    \/ \E id \in Windows : WindowClose(id)
    \/ \E c \in Containers : WindowMove(c)
    \/ \E t \in tasks, place \in Places \cup {<<>>} : MoveResume(t, place)

SpecWin == Init /\ [][NextWin]_vars

\* i3 reports the rename it has carried out
I3Rename ==
    /\ i3_renames # <<>>
    /\ Commit(OnWorkspaceRename(M, Head(i3_renames).to))
    /\ i3_renames' = Tail(i3_renames)
    /\ UNCHANGED <<pc, tasks, sent, calls, conn>>

\* i3 has refused the rename command: no event follows
I3RenameRefused ==
    /\ i3_renames # <<>>
    /\ i3_renames' = Tail(i3_renames)
    /\ UNCHANGED <<wsobj, workspaces, outputs, current_output,
                   current_workspace, scratchpad, rename_workspaces, raised,
                   pc, tasks, sent, calls, conn>>

\* the start-up: the walk, the renumbering loop and i3's rename events
NextBoot ==
    \/ \E tree \in BootTrees : BootWalk(tree)
    \/ BootResume
    \/ I3Rename
    \/ I3RenameRefused

SpecBoot == Init /\ [][NextBoot]_vars

----------------------------------------------------------------------------
(* One Workspace alone: on_window_focus and on_window_close *)

\* the Workspace object that is driven alone
Driven == 1

\* a Workspace just constructed, nothing else
InitFocus ==
    /\ wsobj = [o \in ObjIds |->
                   IF o = Driven
                   THEN [num |-> 1, name |-> "1", focus_order |-> <<>>]
                   ELSE Null]
    /\ workspaces = <<>>
    /\ outputs = <<>>
    /\ current_output = NoOutput
    /\ current_workspace = None
    /\ scratchpad = None
    /\ rename_workspaces = <<>>
    /\ raised = FALSE
    /\ pc = "done"
    /\ tasks = {}
    /\ sent = NoCommand
    /\ i3_renames = <<>>
    /\ calls = NoCalls
    /\ conn = NoConn

Driver == <<workspaces, outputs, current_output, current_workspace,
            scratchpad, rename_workspaces, raised, pc, tasks, sent,
            i3_renames, conn>>

\* the ids a probing call names: the two ends of the history and the
\* element behind the head, and window 1 whether it is still there or not
Probed(s) == {s[i] : i \in {1, 2, Len(s)} \cap (1..Len(s))} \cup {1}

\* probing calls are made while the history is short or about to overflow
MayProbe(s) ==
    /\ calls.probes < MaxProbes
    /\ Len(s) <= MaxShort \/ Len(s) >= FocusMaxLen - 1

\* on_window_focus of a window never seen before
FocusNew ==
    /\ calls.opened < FocusMaxLen + Overflow
    /\ wsobj' = [wsobj EXCEPT ![Driven].focus_order =
                     WsOnWindowFocus(@, calls.opened + 1)]
    /\ calls' = [calls EXCEPT !.opened = @ + 1,
                              !.focused = calls.opened + 1,
                              !.closed = FALSE]
    /\ UNCHANGED Driver

\* on_window_focus of a window focused before
FocusAgain(id) ==
    /\ MayProbe(wsobj[Driven].focus_order)
    /\ id \in Probed(wsobj[Driven].focus_order)
    /\ id <= calls.opened
    /\ wsobj' = [wsobj EXCEPT ![Driven].focus_order = WsOnWindowFocus(@, id)]
    /\ calls' = [calls EXCEPT !.probes = @ + 1, !.focused = id,
                              !.closed = FALSE]
    /\ UNCHANGED Driver

\* on_window_close
CloseWindow(id) ==
    /\ MayProbe(wsobj[Driven].focus_order)
    /\ id \in Probed(wsobj[Driven].focus_order)
    /\ wsobj' = [wsobj EXCEPT ![Driven].focus_order = WsOnWindowClose(@, id)]
    /\ calls' = [calls EXCEPT !.probes = @ + 1,
                              !.closed = @ \/ id = calls.focused]
    /\ UNCHANGED Driver

NextFocus ==
    \/ FocusNew
    \/ \E id \in 1..(FocusMaxLen + Overflow) : FocusAgain(id)
    \/ \E id \in 1..(FocusMaxLen + Overflow) : CloseWindow(id)

SpecFocus == InitFocus /\ [][NextFocus]_vars

----------------------------------------------------------------------------
(* The commands of the socket *)

\* a command coroutine runs up to its i3.command, or raises
Commanded(r) ==
    /\ raised' = r.raised
    /\ sent' = IF r.raised \/ r.sent = NoCommand THEN sent ELSE r.sent
    /\ UNCHANGED <<wsobj, workspaces, outputs, current_output,
                   current_workspace, scratchpad, rename_workspaces, pc,
                   tasks, i3_renames, calls, conn>>

CmdWorkspaceLeft == Commanded(WorkspaceLeft(M))

CmdWorkspaceRight == Commanded(WorkspaceRight(M))

CmdOutputWorkspace(args) == Commanded(OutputWorkspace(M, args))

CmdLastWindow == Commanded(LastWindow(M))

CmdNewOutputWorkspace == Commanded(NewOutputWorkspace(M))

\* the workspaces of the trees the commands are checked on: two of them
\* share their last digit
CmdPool == {<<n, NumStr(n)>> : n \in {1, 2, 3, 13}}

\* output A holds some workspaces of CmdPool, one of them focused
CmdTrees ==
    {[scratch |-> <<>>,
      outs |-> <<OutNode("A",
                   [i \in 1..Cardinality(keys) |->
                       WsNode(Ascending(keys)[i][1], Ascending(keys)[i][2],
                              Ascending(keys)[i] = f, <<>>)])>>]
       : <<keys, f>> \in {x \in (SUBSET CmdPool) \X CmdPool : x[2] \in x[1]}}

\* the argument lists of output-workspace: tokens are their characters
Tokens == {<<Digits[d + 1]>> : d \in 0..MaxArg} \cup {<<"1", "2">>, <<"x">>}
ArgLists == {<<>>} \cup {<<t>> : t \in Tokens} \cup {<<<<"1">>, <<"2">>>>}

NextCmd ==
    \/ \E tree \in CmdTrees : BootWalk(tree)
    \/ \E key \in CmdPool, out \in OutputNames :
           WorkspaceFocus(key, out, "workspace", <<>>)
    \/ \E key \in CmdPool : WorkspaceEmpty(key, "A")
    \/ CmdWorkspaceLeft
    \/ CmdWorkspaceRight
    \/ \E args \in ArgLists : CmdOutputWorkspace(args)

SpecCmd == Init /\ [][NextCmd]_vars

\* last-window among the window events of output A
NextLast ==
    \/ \E tree \in WinTrees : BootWalk(tree)
    \/ \E key \in EvKeys : WorkspaceFocus(key, "A", "workspace", <<>>)
    \/ \E id \in Windows : WindowFocus(id, "auto_off")
    \/ \E id \in Windows : WindowClose(id)
    \/ CmdLastWindow

SpecLast == Init /\ [][NextLast]_vars

\* new-output-workspace on outputs whose band is full or nearly so: the
\* Manager is constructed with room for the Workspace objects of a band
NewObjIds == 1..(BandWidth + MaxObj)

InitNew ==
    /\ wsobj = [o \in NewObjIds |-> Null]
    /\ workspaces = <<>>
    /\ outputs = <<>>
    /\ current_output = NoOutput
    /\ current_workspace = None
    /\ scratchpad = None
    /\ rename_workspaces = <<>>
    /\ raised = FALSE
    /\ pc = "init"
    /\ tasks = {}
    /\ sent = NoCommand
    /\ i3_renames = <<>>
    /\ calls = NoCalls
    /\ conn = NoConn

\* the sets of workspace numbers of an output of band start: the subsets of
\* its first MaxNew numbers, the band with one number missing, the full
\* band, and the full band with one of the numbers behind it
NewNums(start) ==
    LET band == start..(start + BandWidth - 1) IN
    (SUBSET (start..(start + MaxNew - 1)) \ {{}})
    \cup {band \ {h} : h \in start..(start + MaxNew - 1)}
    \cup {band \ {start + BandWidth - 1}, band}
    \cup {band \cup {start + BandWidth + d} : d \in 0..1}

\* Manager._init on the tree of one output that holds the workspaces of
\* the numbers nums, each named by its number and without windows, the
\* first of them focused: the walk and the first rename command. The
\* Workspace objects are created in the order of the walk, the scratchpad
\* first.
BootBand(out, nums) ==
    /\ pc = "init"
    /\ Refs(M) = {}
    /\ LET k == Cardinality(nums)
           nth(i) == CHOOSE x \in nums :
                         Cardinality({y \in nums : y < x}) = i - 1
           m == [objs |-> [o \in DOMAIN wsobj |->
                    IF o = 1
                    THEN [num |-> ScratchKey[1], name |-> ScratchKey[2],
                          focus_order |-> <<>>]
                    ELSE IF o <= k + 1
                    THEN [num |-> nth(o - 1), name |-> NumStr(nth(o - 1)),
                          focus_order |-> <<>>]
                    ELSE Null],
                 workspaces |-> [i \in 1..(k + 1) |-> i],
                 outputs |-> [n \in {out} |-> [i \in 1..k |-> i + 1]],
                 current_output |-> out,
                 current_workspace |-> 2,
                 scratchpad |-> 1,
                 rename_workspaces |->
                     SelectSeq([i \in 1..k |-> <<out, i + 1>>],
                               LAMBDA q : ~InBand(GetOutputStart(out),
                                                  nth(q[2] - 1))),
                 raised |-> FALSE]
       IN /\ wsobj' = m.objs
          /\ workspaces' = m.workspaces
          /\ outputs' = m.outputs
          /\ current_output' = m.current_output
          /\ current_workspace' = m.current_workspace
          /\ scratchpad' = m.scratchpad
          /\ raised' = FALSE
          /\ IF m.rename_workspaces = <<>>
             THEN /\ rename_workspaces' = <<>>
                  /\ pc' = "done"
                  /\ UNCHANGED <<sent, i3_renames>>
             ELSE /\ rename_workspaces' = Tail(m.rename_workspaces)
                  /\ pc' = "rename"
                  /\ sent' = IssueRename(m).cmd
                  /\ i3_renames' = i3_renames \o IssueRename(m).events
    /\ UNCHANGED <<tasks, calls, conn>>

NextNew ==
    \/ \E out \in OutputNames :
           \E nums \in NewNums(GetOutputStart(out)) : BootBand(out, nums)
    \/ BootResume
    \/ I3RenameRefused
    \/ CmdNewOutputWorkspace
    \/ CmdWorkspaceLeft
    \/ CmdWorkspaceRight

SpecNew == InitNew /\ [][NextNew]_vars

----------------------------------------------------------------------------
(* ManagerProtocol: the command socket *)

\* Bytes are modelled in pieces: a piece is a run of characters without
\* white space, one space, or one newline; a chunk ends between two pieces.
NL == "\n"
SP == " "

\* the commands process_input knows
Recognized == {"last-window", "workspace-left", "workspace-right",
               "output-workspace", "workspace-tree", "new-output-workspace"}

\* str.splitlines on a buffer that ends with a newline
RECURSIVE SplitLines(_)
SplitLines(b) ==
    IF b = <<>> THEN <<>>
    ELSE LET at == {i \in 1..Len(b) : b[i] = NL}
             i == IF at = {} THEN Len(b) + 1
                  ELSE CHOOSE x \in at : \A y \in at : x <= y
         IN <<SubSeq(b, 1, i - 1)>> \o SplitLines(SubSeq(b, i + 1, Len(b)))

\* the characters of the first token of a line that starts with it
RECURSIVE Word(_)
Word(line) ==
    IF line = <<>> \/ Head(line) = SP THEN ""
    ELSE Head(line) \o Word(Tail(line))

\* the line behind its first token
RECURSIVE AfterWord(_)
AfterWord(line) ==
    IF line = <<>> \/ Head(line) = SP THEN line ELSE AfterWord(Tail(line))

\* str.split: the tokens between the runs of white space
RECURSIVE Split(_)
Split(line) ==
    IF line = <<>> THEN <<>>
    ELSE IF Head(line) = SP THEN Split(Tail(line))
    ELSE <<Word(line)>> \o Split(AfterWord(line))

\* the loop of process_input over the lines: the tasks it creates are added
\* to spawned; command, *args = command.split() raises ValueError on a line
\* without a token, which ends the loop
RECURSIVE Dispatch(_, _)
Dispatch(lines, spawned) ==
    IF lines = <<>> THEN [spawned |-> spawned, failed |-> FALSE]
    ELSE LET toks == Split(Head(lines)) IN
         IF toks = <<>> THEN [spawned |-> spawned, failed |-> TRUE]
         ELSE Dispatch(Tail(lines),
                       IF toks[1] \in Recognized
                       THEN Append(spawned,
                                [command |-> toks[1],
                                 args |-> IF toks[1] = "output-workspace"
                                          THEN Tail(toks) ELSE <<>>])
                       ELSE spawned)

\* ManagerProtocol.data_received
DataReceived(c, chunk) ==
    LET buffer == c.buffer \o chunk IN
    IF buffer[Len(buffer)] = NL
    THEN [c EXCEPT !.buffer = <<>>,
                   !.spawned = Dispatch(SplitLines(buffer), @).spawned,
                   !.failed = Dispatch(SplitLines(buffer), c.spawned).failed]
    ELSE [c EXCEPT !.buffer = buffer]

\* the lines a client sends: commands, an unknown command, an empty line
\* and a line of one space
LinePool == {<<"workspace-", "left">>, <<"last-window">>,
             <<"output-workspace", SP, "2">>, <<"new-", "output-workspace">>,
             <<"bogus">>, <<>>, <<SP>>}

Streams == UNION {[1..n -> LinePool] : n \in 1..MaxLines}

\* the bytes of a stream: every line with its newline
RECURSIVE Bytes(_)
Bytes(lines) ==
    IF lines = <<>> THEN <<>>
    ELSE Head(lines) \o <<NL>> \o Bytes(Tail(lines))

Quiet == <<wsobj, workspaces, outputs, current_output, current_workspace,
           scratchpad, rename_workspaces, raised, pc, tasks, sent,
           i3_renames, calls>>

\* ManagerProtocol.connection_made, for a client that will send lines
Connect(lines) ==
    /\ ~conn.open
    /\ conn' = [open |-> TRUE, rest |-> Bytes(lines), buffer |-> <<>>,
                lines |-> lines, spawned |-> <<>>, failed |-> FALSE]
    /\ UNCHANGED Quiet

\* the next n pieces arrive in one chunk; after an exception of
\* data_received the transport is closed and nothing arrives any more
Receive(n) ==
    /\ conn.open /\ ~conn.failed
    /\ n \in 1..Len(conn.rest)
    /\ conn' = [DataReceived(conn, SubSeq(conn.rest, 1, n))
                   EXCEPT !.rest = SubSeq(conn.rest, n + 1, Len(conn.rest))]
    /\ UNCHANGED Quiet

\* the connection ends
Disconnect ==
    /\ conn.open
    /\ conn.rest = <<>> \/ conn.failed
    /\ conn' = NoConn
    /\ UNCHANGED Quiet

NextProto ==
    \/ \E lines \in Streams : Connect(lines)
    \/ \E n \in 1..MaxChunk : Receive(n)
    \/ Disconnect

SpecProto == Init /\ [][NextProto]_vars

----------------------------------------------------------------------------
(* main: the shutdown *)

\* the exit event is set while main waits in asyncio.wait: main calls
\* i3.main_quit and manager.stop, and awaits the pending one of the two
\* tasks it waited for
ExitEvent ==
    /\ pc = "done"
    /\ pc' = "gather"
    /\ UNCHANGED <<wsobj, workspaces, outputs, current_output,
                   current_workspace, scratchpad, rename_workspaces, raised,
                   tasks, sent, i3_renames, calls, conn>>

\* asyncio.gather(*pending) is done: main returns, run_until_complete
\* returns with it, and no task is resumed any more
MainReturns ==
    /\ pc = "gather"
    /\ pc' = "exited"
    /\ UNCHANGED <<wsobj, workspaces, outputs, current_output,
                   current_workspace, scratchpad, rename_workspaces, raised,
                   tasks, sent, i3_renames, calls, conn>>

\* window-move events and their reconciliations up to the shutdown; a
\* reconciliation whose tree arrives while main awaits the pending task is
\* resumed still
NextStop ==
    \/ \E tree \in WinTrees : BootWalk(tree)
    \/ \E key \in EvKeys :
           pc = "done" /\ WorkspaceFocus(key, "A", "workspace", <<>>)
    \/ \E id \in Windows : pc = "done" /\ WindowFocus(id, "auto_off")
    \/ \E c \in WindowCons : pc = "done" /\ WindowMove(c)
    \/ \E t \in tasks, place \in Places \cup {<<>>} : MoveResume(t, place)
    \/ ExitEvent
    \/ MainReturns

SpecStop == Init /\ [][NextStop]_vars

\* every event in any order
Next ==
    \/ \E tree \in WsTrees \cup WinTrees \cup BootTrees : BootWalk(tree)
    \/ BootResume
    \/ I3Rename
    \/ I3RenameRefused
    \/ \E key \in EvKeys, out \in OutputNames : WorkspaceInit(key, out)
    \/ \E key \in EvKeys, out \in OutputNames :
           WorkspaceFocus(key, out, "workspace", <<>>)
    \/ \E key \in EvKeys, out \in OutputNames, wins \in WinLists :
           WorkspaceFocus(key, out, "scratch", wins)
    \/ \E key \in EvKeys, out \in OutputNames : WorkspaceEmpty(key, out)
    \/ \E key \in EvKeys : WorkspaceRename(key)
    \/ \E id \in Windows, floating \in {"auto_off", "user_on"} :
           WindowFocus(id, floating)
    \/ \E id \in Windows : WindowClose(id)
    \/ \E c \in Containers : WindowMove(c)
    \/ \E t \in tasks, place \in Places \cup {<<>>} : MoveResume(t, place)
    \/ CmdWorkspaceLeft
    \/ CmdWorkspaceRight
    \/ \E args \in ArgLists : CmdOutputWorkspace(args)
    \/ CmdLastWindow
    \/ CmdNewOutputWorkspace
    \/ \E lines \in Streams : Connect(lines)
    \/ \E n \in 1..MaxChunk : Receive(n)
    \/ Disconnect
    \/ ExitEvent
    \/ MainReturns

Spec == Init /\ [][Next]_vars

----------------------------------------------------------------------------
(* Claims *)

\* the workspaces of the table other than the scratchpad
Tracked == Range(workspaces) \ {scratchpad}

\* the outputs whose list holds the Workspace object o
Holders(outs, o) == {n \in Names(outs) : o \in Range(outs[n])}

\* C1: every window id is in the focus_order of at most one workspace of the
\* table other than the scratchpad.
C1_OneHistoryPerWindow ==
    \A id \in Windows :
        Cardinality({o \in Tracked :
                        HasContainer(wsobj[o].focus_order, id)}) <= 1

\* C2: every Workspace of Manager.workspaces is in the workspaces list of
\* exactly one Output.
C2_InExactlyOneOutput ==
    \A o \in Range(workspaces) : Cardinality(Holders(outputs, o)) = 1

\* C3: when i3 has renamed the tracked workspace W from one key to another
\* and a current workspace is tracked, the rename handler leaves W in the
\* table under the new key, no entry under the old key, W in the list of
\* exactly one Output, and the num and name of every other Workspace as
\* they were.
C3_RenameRekeysTheRenamed ==
    \A i \in 1..Len(i3_renames) :
        LET e == i3_renames[i]
            W == TableFind(M, e.from)
            after == OnWorkspaceRename(M, e.to)
        IN (i = 1 /\ W # None /\ current_workspace # None /\ e.from # e.to)
           => /\ TableFind(after, e.to) = W
              /\ TableFind(after, e.from) = None
              /\ Cardinality(Holders(outputs, W)) = 1
                    => Cardinality(Holders(after.outputs, W)) = 1
              /\ \A o \in Refs(M) \ {W} : KeyOf(after.objs, o) = KeyOf(wsobj, o)

\* C4: the workspaces list of every Output is in ascending order of num.
C4_OutputsSorted ==
    \A n \in Names(outputs) :
        \A i, j \in 1..Len(outputs[n]) :
            i < j => wsobj[outputs[n][i]].num <= wsobj[outputs[n][j]].num

\* C6: when a window-move reconciliation resumes, the window is in the
\* history of the tracked workspace X and the fresh tree holds it under
\* workspace Y: if X is not Y the id leaves X's history and becomes the last
\* element of Y's; if X is Y no history changes.
C6_MoveReconciles ==
    \A t \in tasks, place \in Places, X \in Range(workspaces) :
        (t.window /\ HasContainer(wsobj[X].focus_order, t.id)
            /\ CanCreate(M, place))
        => LET after == OnWindowMoveResume(M, t.id, place)
               Y == TableFind(after, place)
           IN IF KeyOf(wsobj, X) # place
              THEN /\ ~HasContainer(after.objs[X].focus_order, t.id)
                   /\ after.objs[Y].focus_order # <<>>
                   /\ after.objs[Y].focus_order[Len(after.objs[Y].focus_order)]
                          = t.id
              ELSE \A o \in Refs(M) :
                       after.objs[o].focus_order = wsobj[o].focus_order

\* C7: the target number of every rename command of the renumbering loop is
\* inside the band of the workspace's output and is the num of no workspace
\* of that output.
C7_TargetInBandAndFree ==
    sent.cmd = "rename"
    => /\ InBand(GetOutputStart(sent.output), sent.target)
       /\ sent.target \notin sent.nums

\* C8 as stated: on an output of start 1 that holds workspaces 1, 2, 4 and
\* 23, the renumbering rejects the preferred 23 for workspace 23 and renames
\* it to 3.
C8_Renames23To3 ==
    (pc = "done" /\ "A" \in Names(outputs)
        /\ OutputNums(M, "A") = {1, 2, 4, 23} /\ i3_renames = <<>>)
    => (sent.cmd = "rename" /\ sent.from[1] = 23 /\ sent.target = 3)

\* C8 amended: on an output of start 1 that holds workspaces 1, 2, 4, 23 and
\* the out-of-band 123, the preferred candidate 1 + (123 mod 100) - 1 = 23 of
\* workspace 123 is taken, and the rename command for 123 carries 3, the
\* first free number of the scan from start.
C8_Renames123To3 ==
    (sent.cmd = "rename" /\ sent.output = "A" /\ sent.from[1] = 123
        /\ sent.nums = {1, 2, 4, 23, 123})
    => (Preferred(GetOutputStart("A"), 123) = 23 /\ sent.target = 3)

C8_Witness ==
    /\ sent.cmd = "rename" /\ sent.output = "A" /\ sent.from[1] = 123
    /\ sent.nums = {1, 2, 4, 23, 123}
    /\ sent.arg = "rename workspace 123 to 3"

Driven_focus_order == wsobj[Driven].focus_order

\* C5 as stated: the history of a Workspace holds no id twice and at most 50
\* ids, and the id of the latest on_window_focus call is its last element.
C5_LatestFocusIsLast ==
    /\ \A i, j \in 1..Len(Driven_focus_order) :
           i # j => Driven_focus_order[i] # Driven_focus_order[j]
    /\ Len(Driven_focus_order) <= 50
    /\ calls.focused # None
          => /\ Driven_focus_order # <<>>
             /\ Driven_focus_order[Len(Driven_focus_order)] = calls.focused

\* C5 amended: the history holds no id twice and at most 50 ids, and the id
\* of the latest on_window_focus call is its last element unless
\* on_window_close has been called with that id since.
C5_LatestOpenFocusIsLast ==
    /\ \A i, j \in 1..Len(Driven_focus_order) :
           i # j => Driven_focus_order[i] # Driven_focus_order[j]
    /\ Len(Driven_focus_order) <= 50
    /\ (calls.focused # None /\ ~calls.closed)
          => /\ Driven_focus_order # <<>>
             /\ Driven_focus_order[Len(Driven_focus_order)] = calls.focused

\* a full history has dropped its oldest entry, and a window of the history
\* has been focused again
C5_Witness ==
    /\ Len(Driven_focus_order) = 50
    /\ calls.opened > 50
    /\ Driven_focus_order[1] # 1
    /\ calls.focused # calls.opened
    /\ calls.probes > 0 /\ ~calls.closed

\* the workspace command for entry i of the current output's list
Switches(by, i) ==
    Sends(by, "workspace " \o wsobj[outputs[current_output][i]].name)

\* C9: with the current workspace at place p, counted from 0, of the n >= 1
\* workspaces of the current output, workspace-left sends the workspace
\* command for the entry at (p - 1) mod n and workspace-right for the entry
\* at (p + 1) mod n.
C9_LeftRightWrap ==
    (current_output # NoOutput /\ current_workspace # None)
    => LET list == outputs[current_output]
           n == Len(list)
           at == IndexOf(wsobj, list, current_workspace)
       IN (n >= 1 /\ at # 0)
          => /\ WorkspaceLeft(M)
                   = Switches("workspace_left", ((at - 1 - 1) % n) + 1)
             /\ WorkspaceRight(M)
                   = Switches("workspace_right", ((at - 1 + 1) % n) + 1)

\* the nums of the current output's list, in its order
CurrentNums ==
    [i \in 1..Len(outputs[current_output]) |->
        wsobj[outputs[current_output][i]].num]

\* on [1,2,3] at 1, workspace-left has wrapped to 3
C9_Witness ==
    /\ current_output # NoOutput /\ current_workspace # None
    /\ CurrentNums = <<1, 2, 3>>
    /\ wsobj[current_workspace].num = 1
    /\ sent.by = "workspace_left" /\ sent.arg = "workspace 3"

\* C10: output-workspace N on a current output that holds workspaces: when
\* a workspace of the output other than the current one has num mod 10 =
\* N + 1 the command sent focuses such a workspace, otherwise it focuses the
\* entry at index N of the list, N brought down to the last index when it is
\* beyond it.
C10_DigitElseClamped ==
    (current_output # NoOutput /\ outputs[current_output] # <<>>)
    => \A tok \in Tokens :
          IsDigit(tok)
          => LET N == ToInt(tok)
                 list == outputs[current_output]
                 others == {i \in 1..Len(list) :
                               /\ wsobj[list[i]].num % 10 = N + 1
                               /\ KeyOf(wsobj, list[i])
                                      # KeyOf(wsobj, current_workspace)}
                 r == OutputWorkspace(M, <<tok>>)
             IN IF others # {}
                THEN \E i \in others : r = Switches("output_workspace", i)
                ELSE r = Switches("output_workspace",
                                  IF N > Len(list) - 1 THEN Len(list)
                                  ELSE N + 1)

\* on [1,2,3,13] at 3, output-workspace 2 has passed the current workspace
\* over for 13
C10_Witness ==
    /\ current_output # NoOutput /\ current_workspace # None
    /\ CurrentNums = <<1, 2, 3, 13>>
    /\ wsobj[current_workspace].num = 3
    /\ sent.by = "output_workspace" /\ sent.arg = "workspace 13"

\* the fields of the Manager and of its Workspaces
state == <<wsobj, workspaces, outputs, current_output, current_workspace,
           scratchpad>>

\* C11: last-window sends the focus command for the second-to-last element
\* of the current workspace's history when it holds two ids or more; with a
\* shorter history or no current workspace it sends nothing; and it changes
\* no state.
C11_LastWindow ==
    /\ [](LET order == IF current_workspace = None THEN <<>>
                       ELSE wsobj[current_workspace].focus_order
          IN IF Len(order) >= 2
             THEN LastWindow(M) = Focuses("last_window", order[Len(order) - 1])
             ELSE LastWindow(M) = Returns)
    /\ [][CmdLastWindow => UNCHANGED state]_vars

\* on the history [1, 2] last-window has sent the focus command for 1
C11_Witness ==
    /\ current_workspace # None
    /\ wsobj[current_workspace].focus_order = <<1, 2>>
    /\ sent.by = "last_window" /\ sent.arg = "[con_id=1] focus"

\* the numbers of the workspaces of the current output
NumsHere == OutputNums(M, current_output)

\* C12 as stated: new-output-workspace sends one workspace command, for the
\* smallest number from the start of the current output's band on that is
\* the num of none of its workspaces; and with every number of the band
\* taken that number is start + 100.
C12_FirstFreeOrBandEnd ==
    current_output # NoOutput
    => LET start == GetOutputStart(current_output)
           r == NewOutputWorkspace(M)
       IN /\ ~r.raised /\ r.sent.cmd = "workspace"
          /\ r.sent.arg = "workspace " \o NumStr(r.sent.target)
          /\ r.sent.target >= start /\ r.sent.target \notin NumsHere
          /\ \A j \in start..(r.sent.target - 1) : j \in NumsHere
          /\ (\A j \in start..(start + 99) : j \in NumsHere)
                => r.sent.target = start + 100

\* C12 amended: the number is the smallest from start on that is the num of
\* no workspace of the current output; with every number of the band taken
\* it is start + 100 or more, and start + 100 when no workspace of the
\* output has that num.
C12_FirstFreeBeyondBand ==
    current_output # NoOutput
    => LET start == GetOutputStart(current_output)
           r == NewOutputWorkspace(M)
       IN /\ ~r.raised /\ r.sent.cmd = "workspace"
          /\ r.sent.arg = "workspace " \o NumStr(r.sent.target)
          /\ r.sent.target >= start /\ r.sent.target \notin NumsHere
          /\ \A j \in start..(r.sent.target - 1) : j \in NumsHere
          /\ (\A j \in start..(start + 99) : j \in NumsHere)
                => /\ r.sent.target >= start + 100
                   /\ start + 100 \notin NumsHere
                         => r.sent.target = start + 100

\* with the band of output B full, new-output-workspace has sent the
\* number behind the band
C12_Witness ==
    /\ current_output = "B"
    /\ NumsHere = 101..200
    /\ sent.by = "new_output_workspace" /\ sent.arg = "workspace 201"

\* the window-move events of a floating container
Floating == {c \in Containers : c.type = "floating_con"}

\* C13: a window-move event of a floating container takes the id of every
\* child node of the container out of the history of every workspace of the
\* table, creates no reconciliation task, and leaves every other id of
\* every history, and everything else, as it was.
C13_FloatingTeardown ==
    \A c \in Floating :
        LET r == OnWindowMove(M, c) IN
        /\ ~r.task
        /\ \A o \in DOMAIN wsobj :
               r.m.objs[o].focus_order
                   = IF o \in Range(workspaces)
                     THEN SelectSeq(wsobj[o].focus_order,
                                    LAMBDA id : id \notin Range(c.nodes))
                     ELSE wsobj[o].focus_order
        /\ r.m = [M EXCEPT !.objs = r.m.objs]

\* a floating container with window 1 can be torn down while window 1 is in
\* the histories of two workspaces of the table, one of them not the current
\* workspace, and another window is in a history
C13_Witness ==
    /\ \E a, b \in Range(workspaces) :
          /\ a # b /\ a # current_workspace
          /\ HasContainer(wsobj[a].focus_order, 1)
          /\ HasContainer(wsobj[b].focus_order, 1)
          /\ HasContainer(wsobj[b].focus_order, 2)
    /\ \E c \in Floating : c.nodes = <<1>>

\* the tasks that the lines of a stream are to get: one for each line whose
\* first token is a recognized command, in the order of the stream
Expected(lines) ==
    LET order(line) == Split(line)
        known == SelectSeq(lines, LAMBDA line : /\ order(line) # <<>>
                                                /\ order(line)[1] \in Recognized)
    IN [i \in 1..Len(known) |->
           [command |-> order(known[i])[1],
            args |-> IF order(known[i])[1] = "output-workspace"
                     THEN Tail(order(known[i])) ELSE <<>>]]

\* C14: once the whole stream of a client has arrived, in whatever chunks,
\* or the connection has stopped taking it,
\* the tasks created are one for each line that starts with a recognized
\* command, in the order of the stream; the other lines have created none
\* and have kept no line behind them from being dispatched.
C14_EveryCommandLineDispatched ==
    (conn.open /\ (conn.rest = <<>> \/ conn.failed))
    => conn.spawned = Expected(conn.lines)

\* a handler's result with the exception it has ended by put aside
Outcome(m) == [m EXCEPT !.raised = FALSE]

\* C15: a workspace-rename event that finds no current workspace, and a
\* workspace-empty event for a workspace that is not in the table or not in
\* the list of the output it names, leave the outputs, the table, the
\* current pointers and every history as they were.
C15_UntrackedLeavesModel ==
    /\ current_workspace = None
          => \A key \in EvKeys : Outcome(OnWorkspaceRename(M, key)) = M
    /\ \A key \in EvKeys, out \in OutputNames :
          (/\ CanCreate(M, key)
           /\ \/ TableFind(M, key) = None
              \/ out \notin Names(outputs)
              \/ IndexOf(wsobj, outputs[out], TableFind(M, key)) = 0)
          => Outcome(OnWorkspaceEmpty(M, key, out)) = M

\* C16: a window-move reconciliation that finds no workspace for the window
\* in the fresh tree ends without a change to the table, to the list of any
\* Output or to any history.
C16_NotFoundChangesNothing ==
    \A t \in tasks : OnWindowMoveResume(M, t.id, <<>>) = M

\* a reconciliation is suspended for a window that a workspace of the table
\* has in its history
C16_Witness ==
    \E t \in tasks : t.window /\ TrackedIn(M, t.id) # None

\* C17: when main has returned after the exit event, no task that was
\* suspended at the shutdown is left suspended: each has run to its end.
C17_NoTaskAbandoned ==
    pc = "exited" => tasks = {}

\* C18: a window-move reconciliation that is resumed with a tree that has
\* the window under a workspace ends without raising, whatever the handlers
\* that ran since the event left in the model.
C18_ReconciliationNeverRaises ==
    \A t \in tasks, place \in Places :
        CanCreate(M, place) => ~OnWindowMoveResume(M, t.id, place).raised

\* C19: after the workspace-empty event for a Workspace W of the table that
\* is in the list of the event's Output, W is not in the table and in the
\* list of no Output, and the table and every list hold the other
\* Workspaces as before, in the same order.
C19_EmptyRemovesOnlyW ==
    \A key \in EvKeys, out \in Names(outputs) :
        LET W == TableFind(M, key)
            after == OnWorkspaceEmpty(M, key, out)
            Other(o) == o # W
        IN (W # None /\ W \in Range(outputs[out]))
           => /\ ~after.raised
              /\ after.objs = wsobj
              /\ after.workspaces = SelectSeq(workspaces, Other)
              /\ Names(after.outputs) = Names(outputs)
              /\ \A n \in Names(outputs) :
                     after.outputs[n] = SelectSeq(outputs[n], Other)

\* C20: the walk of the start-up queues every workspace node, the scratchpad
\* apart, whose num is outside the band of its output (1..100 on A, 101..200
\* on B), and no rename command goes to i3 before the walk is over: _init
\* has sent none while it waits for the tree, and the first command it
\* builds sees every workspace node of the output registered. When _init
\* leaves the walk, every out-of-band workspace of an Output is in the queue
\* or is the one of the command just sent.
C20_OutOfBandQueuedAfterWalk ==
    /\ [](pc = "init" =>
            /\ sent.cmd # "rename"
            /\ \A tree \in BootTrees :
                   LET m == WalkTree(M, tree)
                       out == tree.outs[1]
                       first == IF out.name = "B" THEN 101 ELSE 1
                       queue == m.rename_workspaces
                   IN /\ \A j \in 1..Len(out.wss) :
                             (out.wss[j].key[1] < first
                              \/ out.wss[j].key[1] >= first + 100)
                             => \E q \in 1..Len(queue) :
                                    /\ queue[q][1] = out.name
                                    /\ KeyOf(m.objs, queue[q][2])
                                           = out.wss[j].key
                      /\ queue # <<>>
                         => IssueRename(m).cmd.nums
                                = {out.wss[j].key[1] : j \in 1..Len(out.wss)})
    /\ [][(pc = "init" /\ pc' # "init") =>
            \A n \in Names(outputs') : \A k \in 1..Len(outputs'[n]) :
                LET o == outputs'[n][k]
                    first == IF n = "B" THEN 101 ELSE 1
                IN (wsobj'[o].num < first \/ wsobj'[o].num >= first + 100)
                   => \/ \E q \in 1..Len(rename_workspaces') :
                             rename_workspaces'[q] = <<n, o>>
                      \/ /\ sent'.cmd = "rename"
                         /\ sent'.output = n
                         /\ sent'.from = <<wsobj'[o].num, wsobj'[o].name>>
                         /\ sent'.nums = {wsobj'[outputs'[n][x]].num :
                                              x \in 1..Len(outputs'[n])}]_vars

\* _init has sent a rename command and another workspace is still queued
C20_Witness ==
    /\ pc = "rename"
    /\ sent.cmd = "rename"
    /\ sent.by = "_init"
    /\ Len(rename_workspaces) >= 1
    /\ sent.nums = OutputNums(M, sent.output)

\* C21: the rename commands of one start-up for workspaces of the same
\* output carry distinct target numbers; in particular a rename command
\* never repeats the target of the command _init sent before it, whether a
\* rename event was handled between the two or not.
C21_DistinctTargets ==
    [][(/\ sent.cmd = "rename" /\ sent.by = "_init"
        /\ sent'.cmd = "rename" /\ sent'.by = "_init"
        /\ sent' # sent
        /\ sent'.output = sent.output)
       => sent'.target # sent.target]_vars

\* C22: while there is neither a current output nor a current workspace,
\* as before the walk of the start-up has ended, each of the five commands
\* of the socket returns without raising and gives no command to i3.
C22_CommandsBeforeWalk ==
    (current_output = NoOutput /\ current_workspace = None)
    => \A r \in {LastWindow(M), WorkspaceLeft(M), WorkspaceRight(M),
                 NewOutputWorkspace(M)}
                \cup {OutputWorkspace(M, args) : args \in ArgLists} :
           r = Returns
====
